---- MODULE Spec2Model ----
(***************************************************************************)
(* Authentication and session lifecycle of the SiftPilot backend           *)
(* (src/deploy/index.js).                                                  *)
(*                                                                         *)
(* The state is the express-session MemoryStore (session id -> stored      *)
(* session), the wall clock, the process environment, whether the process  *)
(* is still running, and the response to the last request.  Every route    *)
(* of index.js is one action: the whole middleware chain the request       *)
(* passes through (rate limiter on /api/, session load, passport.session,  *)
(* route handler, error middleware, session touch at the end of the        *)
(* response) is part of that action.                                       *)
(*                                                                         *)
(* A second specification, SpecConc, follows overlapping requests on one   *)
(* session id turn by turn of the event loop: `inflight' holds, for each   *)
(* request being handled, its position and the session it loaded.  Under   *)
(* Spec no request is in flight between two steps.                         *)
(*                                                                         *)
(* Library behaviour the source relies on, as configured in index.js:      *)
(*  - express-session, default MemoryStore, resave:false,                  *)
(*    saveUninitialized:false, cookie.maxAge 24h: a session is stored only *)
(*    once it is modified; get() drops a session whose expiry is <= now;   *)
(*    at the end of every response an unmodified loaded session is         *)
(*    touched (expires := now + maxAge).                                   *)
(*  - passport >= 0.6 (req.logout takes a callback): logIn regenerates the *)
(*    session (old id destroyed, fresh id), logOut saves and regenerates.  *)
(*  - passport-oauth2 without the `state' option: no state token is        *)
(*    issued or verified; an access_denied callback fails (failure         *)
(*    redirect), a failed exchange or unparsable profile is an error       *)
(*    (next(err)).                                                         *)
(*  - an exception inside the async verify callback is a rejected promise  *)
(*    nobody handles: the process exits (Node >= 15 default) or only warns *)
(*    and the request never gets a response.                               *)
(* Time is counted in hours.                                               *)
(***************************************************************************)
EXTENDS Integers, Sequences, FiniteSets, TLC

VARIABLES env, alive, sessions, nextSid, now, resp, inflight

vars == <<env, alive, sessions, nextSid, now, resp, inflight>>

(* ------------------------------ bounds --------------------------------- *)
\* Session ids the store ever allocates.
MaxSessions == 2
\* Hours the clock advances in one step.
TickHours == 12
\* The clock stops after this many steps.
MaxTicks == 2

(* ------------------------- program constants --------------------------- *)
\* cookie.maxAge (24 * 60 * 60 * 1000 ms), in hours.
MaxAge == 24

SIDs     == 1..MaxSessions
NoCookie == 0
Cookies  == {NoCookie} \cup SIDs

NoSession == [absent |-> TRUE]
NoUser    == [none |-> TRUE]

(* Provider profiles, as passport-google-oauth20 hands them to verify.     *)
Profiles ==
  { [id |-> "42", displayName |-> "A", emails |-> <<"a@x.com">>,
     photos |-> <<"http://img">>],
    [id |-> "7",  displayName |-> "B", emails |-> <<"b@x.com", "b2@x.com">>,
     photos |-> <<"http://img2", "http://img3">>],
    [id |-> "42", displayName |-> "A", emails |-> <<"a@x.com">>,
     photos |-> <<>>],
    [id |-> "42", displayName |-> "A", emails |-> <<>>,
     photos |-> <<"http://img">>] }

(* What the provider round trip of a callback request yields.              *)
ProviderReplies ==
  { [kind |-> k, profile |-> NoUser] :
      k \in {"denied", "exchange_failed", "malformed"} }
  \cup { [kind |-> "profile", profile |-> p] : p \in Profiles }

NoReply == [kind |-> "-", profile |-> NoUser]

(* The callback requests.  The `state' query parameter is absent or a      *)
(* value the server did not issue: every provider reply without a state    *)
(* parameter, and a denied, a failed and a successful login with a forged  *)
(* one.                                                                    *)
CallbackQueries ==
  { [state |-> "none", reply |-> pr] : pr \in ProviderReplies }
  \cup { [state |-> "forged", reply |-> pr] :
           pr \in { r \in ProviderReplies :
                      \/ r.kind \in {"denied", "exchange_failed"}
                      \/ /\ r.kind = "profile"
                         /\ Len(r.profile.emails) = 1
                         /\ Len(r.profile.photos) = 1 } }

Envs == [clientId : BOOLEAN, clientSecret : BOOLEAN]

(* What an unhandled promise rejection does to the process: Node >= 15     *)
(* exits, older versions (or --unhandled-rejections=warn) only warn.       *)
RejectionModes == {"throw", "warn"}

(* --------------------------- pure helpers ------------------------------ *)

\* A serializer that stores the user under another provider name.
serializeUser_Relabels(user) == [user EXCEPT !.provider = "local"]

\* passport.serializeUser((user, done) => done(null, user))
serializeUser(user) == user

\* A deserializer that rebuilds the user from its id and loses the email.
deserializeUser_LosesEmail(obj) == [obj EXCEPT !.email = ""]

\* passport.deserializeUser((user, done) => done(null, user))
deserializeUser(obj) == obj

\* if (process.env.GOOGLE_CLIENT_ID && process.env.GOOGLE_CLIENT_SECRET)
strategyRegistered == env.clientId /\ env.clientSecret

\* The GoogleStrategy verify callback.  profile.emails[0].value and
\* profile.photos[0].value throw a TypeError when the entry is missing.
verify(profile) ==
  IF Len(profile.emails) = 0 \/ Len(profile.photos) = 0
  THEN [threw |-> TRUE, user |-> NoUser]
  ELSE [threw |-> FALSE,
        user  |-> [id        |-> profile.id,
                   email     |-> profile.emails[1],
                   name      |-> profile.displayName,
                   provider  |-> "google",
                   avatarUrl |-> profile.photos[1]]]

(* --------------------------- session store ----------------------------- *)

\* MemoryStore get: the session exists and has not expired.
Valid(c) ==
  /\ c \in SIDs
  /\ sessions[c] # NoSession
  /\ now < sessions[c].expires

\* Store after the session middleware loaded cookie c: an expired session
\* is deleted on read.
Loaded(store, c) ==
  IF c \in SIDs /\ store[c] # NoSession /\ ~(now < store[c].expires)
  THEN [store EXCEPT ![c] = NoSession]
  ELSE store

\* A store whose touch does not move the expiry.
touch_Fixed(store, c) == store

\* Session touch at the end of a response: cookie.maxAge is reset, the
\* store entry's expiry becomes now + maxAge.
touch(store, c) ==
  IF c \in SIDs /\ store[c] # NoSession
  THEN [store EXCEPT ![c].expires = now + MaxAge]
  ELSE store

\* A request that pushes the expiry of its session out by maxAge.
Served_Extends(c) ==
  IF c \in SIDs /\ Loaded(sessions, c)[c] # NoSession
  THEN [sessions EXCEPT ![c].expires = @ + MaxAge]
  ELSE Loaded(sessions, c)

\* The store after a request that does not modify its session.
Served(c) == touch(Loaded(sessions, c), c)

\* A destroy that leaves the entry in the store.
destroy_Keeps(store, c) == store

\* store.destroy(sid)
destroy(store, c) ==
  IF c \in SIDs THEN [store EXCEPT ![c] = NoSession] ELSE store

\* passport.session(): req.user of a request carrying cookie c.
reqUser(c) ==
  IF Valid(c) THEN deserializeUser(sessions[c].user) ELSE NoUser

\* An authentication test that looks at the store entry only, not at its
\* expiry.
isAuthenticated_IgnoresExpiry(c) == c \in SIDs /\ sessions[c] # NoSession

\* req.isAuthenticated()
isAuthenticated(c) == reqUser(c) # NoUser

\* requireAuth: TRUE when next() is called.
requireAuth(c) == isAuthenticated(c)

(* ----------------------------- responses ------------------------------- *)

Response(route, c, status, body, user, ran) ==
  [route |-> route, cookie |-> c, status |-> status, body |-> body,
   user |-> user, ran |-> ran, state |-> "-", reply |-> NoReply,
   exchanged |-> FALSE, setCookie |-> NoCookie, cookieData |-> NoUser]

\* The error handling middleware.
errorHandler(route, c) ==
  Response(route, c, 500, "Internal server error", NoUser, FALSE)

\* A guard that answers 403 instead of 401.
Unauthorized_Forbidden(route, c) ==
  Response(route, c, 403, "Authentication required", NoUser, FALSE)

\* res.status(401).json({ error: 'Authentication required' })
Unauthorized(route, c) ==
  Response(route, c, 401, "Authentication required", NoUser, FALSE)

\* Requests whose handling is followed step by step when requests overlap:
\* a login callback, a logout and a read through the guard.
Reqs == {"login", "logout", "read"}

\* A request that is not being handled.
Idle == [pc |-> "absent", sess |-> NoSession, profile |-> NoUser]

NoRequests == [r \in Reqs |-> Idle]

\* A start that registers the strategy unguarded: the GoogleStrategy
\* constructor throws when the client id or secret is missing.
Init_RegistersUnguarded ==
  /\ env \in Envs
  /\ alive = (env.clientId /\ env.clientSecret)
  /\ sessions = [s \in SIDs |-> NoSession]
  /\ nextSid = 1
  /\ now = 0
  /\ resp = Response("-", NoCookie, 0, "", NoUser, FALSE)
  /\ inflight = NoRequests

Init ==
  /\ env \in Envs
  /\ alive = TRUE
  /\ sessions = [s \in SIDs |-> NoSession]
  /\ nextSid = 1
  /\ now = 0
  /\ resp = Response("-", NoCookie, 0, "", NoUser, FALSE)
  /\ inflight = NoRequests

(* ------------------------------ routes --------------------------------- *)

\* app.get('/health')
GetHealth(c) ==
  /\ alive
  /\ resp' = Response("/health", c, 200, "healthy", NoUser, TRUE)
  /\ sessions' = Served(c)
  /\ UNCHANGED <<env, alive, nextSid, now, inflight>>

\* app.get('/test')
GetTest(c) ==
  /\ alive
  /\ resp' = Response("/test", c, 200, "SiftPilot backend is working!",
                      IF reqUser(c) # NoUser
                      THEN [email |-> reqUser(c).email] ELSE NoUser, TRUE)
  /\ sessions' = Served(c)
  /\ UNCHANGED <<env, alive, nextSid, now, inflight>>

\* app.get('/auth/google').  passport.authenticate(...)(req, res) is called
\* without `next': with the strategy unregistered passport calls next(err),
\* the TypeError is caught by the router and reaches the error middleware.
GetAuthGoogle(c) ==
  /\ alive
  /\ resp' =
       IF ~env.clientId
       THEN Response("/auth/google", c, 500, "Google OAuth not configured",
                     NoUser, FALSE)
       ELSE IF ~strategyRegistered
       THEN errorHandler("/auth/google", c)
       ELSE [Response("/auth/google", c, 302, "provider", NoUser, TRUE)
               EXCEPT !.state = "none"]
  /\ sessions' = Served(c)
  /\ UNCHANGED <<env, alive, nextSid, now, inflight>>

\* Response of the callback route when no session is established.
CallbackResponse(c, st, pr, base) ==
  [base EXCEPT !.state = st, !.reply = pr,
               !.exchanged = pr.kind \in {"exchange_failed", "malformed",
                                          "profile"}]

\* app.get('/auth/google/callback') when passport.authenticate does not
\* reach the verify callback.
CallbackNoVerify(c, st, pr) ==
  /\ alive
  /\ \/ ~strategyRegistered
     \/ pr.kind # "profile"
  /\ resp' =
       IF ~strategyRegistered
       THEN [errorHandler("/auth/google/callback", c)
               EXCEPT !.state = st, !.reply = pr]
       ELSE IF pr.kind = "denied"
       THEN CallbackResponse(c, st, pr,
              Response("/auth/google/callback", c, 302, "/login-failed",
                       NoUser, FALSE))
       ELSE CallbackResponse(c, st, pr,
              errorHandler("/auth/google/callback", c))
  /\ sessions' = Served(c)
  /\ UNCHANGED <<env, alive, nextSid, now, inflight>>

\* The verify callback threw: the rejected promise is never handled.
CallbackVerifyThrows(c, st, pr, mode) ==
  /\ alive
  /\ strategyRegistered
  /\ pr.kind = "profile"
  /\ verify(pr.profile).threw
  /\ resp' = CallbackResponse(c, st, pr,
               Response("/auth/google/callback", c, 0, "no response",
                        NoUser, FALSE))
  /\ IF mode = "throw"
     THEN /\ alive' = FALSE
          /\ sessions' = [s \in SIDs |-> NoSession]
     ELSE /\ alive' = alive
          /\ sessions' = Loaded(sessions, c)
  /\ UNCHANGED <<env, nextSid, now, inflight>>

\* The id session regenerate generates: a fresh random id, different from
\* every id allocated before and from the one the request presented.
FreshSid(c) == IF c = nextSid THEN nextSid + 1 ELSE nextSid

\* A login that keeps the fields of the user the session held before.
logIn_Merges(store, c, sid, user) ==
  [destroy(Loaded(store, c), c) EXCEPT
     ![sid] = [user |-> IF c \in SIDs /\ Loaded(store, c)[c] # NoSession
                        THEN [serializeUser(user) EXCEPT
                                !.avatarUrl = store[c].user.avatarUrl]
                        ELSE serializeUser(user),
               expires |-> now + MaxAge]]

\* A login that saves the user under the session id the request presented.
logIn_Adopts(store, c, sid, user) ==
  IF c \in SIDs
  THEN [Loaded(store, c) EXCEPT
          ![c] = [user |-> serializeUser(user), expires |-> now + MaxAge]]
  ELSE [store EXCEPT
          ![sid] = [user |-> serializeUser(user), expires |-> now + MaxAge]]

\* req.logIn: the session is regenerated under a fresh id and the
\* serialized user is saved in it.
logIn(store, c, sid, user) ==
  [destroy(Loaded(store, c), c) EXCEPT
     ![sid] = [user |-> serializeUser(user), expires |-> now + MaxAge]]

\* A session cookie that carries the session itself.
sessionCookie_CarriesSession(sid, sess) == [sid |-> sid, user |-> sess.user]

\* What the session middleware puts in the Set-Cookie header: the signed
\* session id.
sessionCookie(sid, sess) == [sid |-> sid]

\* verify called done(null, user): login, then res.redirect('/dashboard').
CallbackSuccess(c, st, pr) ==
  /\ alive
  /\ strategyRegistered
  /\ pr.kind = "profile"
  /\ ~verify(pr.profile).threw
  /\ FreshSid(c) <= MaxSessions
  /\ sessions' = logIn(sessions, c, FreshSid(c), verify(pr.profile).user)
  /\ nextSid' = FreshSid(c) + 1
  /\ resp' = [CallbackResponse(c, st, pr,
                Response("/auth/google/callback", c, 302, "/dashboard",
                         reqUser(c), TRUE))
                EXCEPT !.setCookie = FreshSid(c),
                       !.cookieData =
                          sessionCookie(FreshSid(c), sessions'[FreshSid(c)])]
  /\ UNCHANGED <<env, alive, now, inflight>>

\* app.get('/auth/google/callback')
GetAuthGoogleCallback(c, st, pr) ==
  \/ CallbackNoVerify(c, st, pr)
  \/ \E mode \in RejectionModes : CallbackVerifyThrows(c, st, pr, mode)
  \/ CallbackSuccess(c, st, pr)

\* app.get('/login-failed')
GetLoginFailed(c) ==
  /\ alive
  /\ resp' = Response("/login-failed", c, 200, "Login Failed", NoUser, TRUE)
  /\ sessions' = Served(c)
  /\ UNCHANGED <<env, alive, nextSid, now, inflight>>

\* app.get('/dashboard', requireAuth, ...).  Reading a field of req.user
\* when req.user is undefined throws; the error middleware answers.
GetDashboard(c) ==
  /\ alive
  /\ resp' =
       IF requireAuth(c) /\ reqUser(c) = NoUser
       THEN errorHandler("/dashboard", c)
       ELSE IF requireAuth(c)
       THEN Response("/dashboard", c, 200, "Welcome",
                     [name      |-> reqUser(c).name,
                      email     |-> reqUser(c).email,
                      provider  |-> reqUser(c).provider,
                      avatarUrl |-> reqUser(c).avatarUrl], TRUE)
       ELSE Unauthorized("/dashboard", c)
  /\ sessions' = Served(c)
  /\ UNCHANGED <<env, alive, nextSid, now, inflight>>

\* app.use('/api/', limiter): the limiter answers a request over the limit
\* itself, before the session middleware runs.
TooManyRequests(route, c) ==
  Response(route, c, 429,
           "Too many requests from this IP, please try again later.",
           NoUser, FALSE)

\* app.get('/api/user', requireAuth, ...)
GetApiUser(c, limited) ==
  /\ alive
  /\ resp' =
       IF limited
       THEN TooManyRequests("/api/user", c)
       ELSE IF requireAuth(c) /\ reqUser(c) = NoUser
       THEN errorHandler("/api/user", c)
       ELSE IF requireAuth(c)
       THEN Response("/api/user", c, 200, "json",
                     [id        |-> reqUser(c).id,
                      email     |-> reqUser(c).email,
                      name      |-> reqUser(c).name,
                      provider  |-> reqUser(c).provider,
                      avatarUrl |-> reqUser(c).avatarUrl], TRUE)
       ELSE Unauthorized("/api/user", c)
  /\ sessions' = IF limited THEN sessions ELSE Served(c)
  /\ UNCHANGED <<env, alive, nextSid, now, inflight>>

\* req.logout: the user is removed from the session, the session is saved
\* and regenerated, which destroys the old id in the store.
logOut(store, c) == destroy(Loaded(store, c), c)

StoreError == [kind |-> "store_error", profile |-> NoUser]

\* A logout callback that swallows the error.
LogoutResponse_Swallows(c, err) ==
  [Response("/auth/logout", c, 302, "/", NoUser, TRUE)
     EXCEPT !.reply = IF err THEN StoreError ELSE NoReply]

\* A logout callback that treats a session that is not there as an error.
LogoutResponse_Strict(c, err) ==
  IF err \/ ~Valid(c)
  THEN [Response("/auth/logout", c, 500, "Logout failed", NoUser, TRUE)
          EXCEPT !.reply = IF err THEN StoreError ELSE NoReply]
  ELSE Response("/auth/logout", c, 302, "/", NoUser, TRUE)

\* The callback given to req.logout.
LogoutResponse(c, err) ==
  IF err
  THEN [Response("/auth/logout", c, 500, "Logout failed", NoUser, TRUE)
          EXCEPT !.reply = StoreError]
  ELSE Response("/auth/logout", c, 302, "/", NoUser, TRUE)

\* app.get('/auth/logout').  err: the session store reported an error to
\* req.logout; the failed operation leaves the store as it was.
GetAuthLogout(c, err) ==
  /\ alive
  /\ resp' = LogoutResponse(c, err)
  /\ sessions' = IF err THEN Loaded(sessions, c) ELSE logOut(sessions, c)
  /\ UNCHANGED <<env, alive, nextSid, now, inflight>>

\* app.get('/')
GetHome(c) ==
  /\ alive
  /\ resp' =
       IF isAuthenticated(c) /\ reqUser(c) = NoUser
       THEN errorHandler("/", c)
       ELSE Response("/", c, 200, "home",
                     IF isAuthenticated(c)
                     THEN [email |-> reqUser(c).email] ELSE NoUser, TRUE)
  /\ sessions' = Served(c)
  /\ UNCHANGED <<env, alive, nextSid, now, inflight>>

\* The clock advances.
Tick ==
  /\ now + TickHours <= MaxTicks * TickHours
  /\ now' = now + TickHours
  /\ UNCHANGED <<env, alive, sessions, nextSid, resp, inflight>>

Next ==
  \/ \E c \in Cookies : GetHealth(c)
  \/ \E c \in Cookies : GetTest(c)
  \/ \E c \in Cookies : GetAuthGoogle(c)
  \/ \E c \in Cookies, q \in CallbackQueries :
       GetAuthGoogleCallback(c, q.state, q.reply)
  \/ \E c \in Cookies : GetLoginFailed(c)
  \/ \E c \in Cookies : GetDashboard(c)
  \/ \E c \in Cookies, limited \in BOOLEAN : GetApiUser(c, limited)
  \/ \E c \in Cookies, err \in BOOLEAN : GetAuthLogout(c, err)
  \/ \E c \in Cookies : GetHome(c)
  \/ Tick

Spec == Init /\ [][Next]_vars

(* ----------------------- overlapping requests -------------------------- *)
(* Node runs one callback at a time.  MemoryStore get, set, touch and      *)
(* destroy act on the store synchronously and defer their callback with    *)
(* setImmediate, so a request gives way to other requests between two      *)
(* store operations, never inside one.  Each action below is one such      *)
(* turn of one request.                                                    *)

\* The session id the overlapping requests present.
ConcSid == 1

\* The profile the session ConcSid was logged in with.
ConcProfile ==
  CHOOSE p \in Profiles :
    p.id = "42" /\ Len(p.emails) = 1 /\ Len(p.photos) = 1

\* The store the overlapping requests find: session ConcSid was logged in
\* at hour 0.
ConcStore ==
  [s \in SIDs |->
     IF s = ConcSid
     THEN [user |-> serializeUser(verify(ConcProfile).user),
           expires |-> MaxAge]
     ELSE NoSession]

\* The id a login on ConcStore regenerates the session under.
ConcFresh == ConcSid + 1

\* Some of the requests have arrived, all with cookie ConcSid, TickHours
\* after the session was logged in; the provider will answer the login
\* callback with a profile verify accepts.
InitConc ==
  /\ env = [clientId |-> TRUE, clientSecret |-> TRUE]
  /\ alive = TRUE
  /\ sessions = ConcStore
  /\ nextSid = ConcFresh
  /\ now = TickHours
  /\ resp = Response("-", NoCookie, 0, "", NoUser, FALSE)
  /\ \E P \in SUBSET Reqs, p \in {q \in Profiles : ~verify(q).threw} :
       /\ P # {}
       /\ inflight =
            [r \in Reqs |->
               IF r \in P
               THEN [pc |-> "arrived", sess |-> NoSession,
                     profile |-> IF r = "login" THEN p ELSE NoUser]
               ELSE Idle]

\* Session middleware: store.get(sid) is evaluated on arrival (an expired
\* entry is deleted) and req.session is built from what it returned.
LoadSession(r) ==
  /\ inflight[r].pc = "arrived"
  /\ sessions' = Loaded(sessions, ConcSid)
  /\ inflight' = [inflight EXCEPT ![r].pc = "loaded",
                                  ![r].sess = sessions'[ConcSid]]
  /\ UNCHANGED <<env, alive, nextSid, now, resp>>

\* A response end that saves the session it loaded again.
storeTouch_Resaves(store, c, sess) ==
  IF sess # NoSession
  THEN [store EXCEPT ![c] = [sess EXCEPT !.expires = now + MaxAge]]
  ELSE store

\* End of a response whose session was not modified (resave: false):
\* store.touch for a session that was loaded from the store, nothing for
\* one generated for the request; touch leaves an entry that is no longer
\* in the store alone.
storeTouch(store, c, sess) ==
  IF sess # NoSession THEN touch(store, c) ELSE store

\* GET /dashboard: passport.session, requireAuth and the handler run on the
\* session that was loaded; the response end touches the store.
GuardedRespond ==
  /\ inflight["read"].pc = "loaded"
  /\ resp' =
       LET sess == inflight["read"].sess
           user == IF sess # NoSession /\ sess.user # NoUser
                   THEN deserializeUser(sess.user) ELSE NoUser
       IN  IF user # NoUser
           THEN Response("/dashboard", ConcSid, 200, "Welcome",
                         [name      |-> user.name,
                          email     |-> user.email,
                          provider  |-> user.provider,
                          avatarUrl |-> user.avatarUrl], TRUE)
           ELSE Unauthorized("/dashboard", ConcSid)
  /\ sessions' = storeTouch(sessions, ConcSid, inflight["read"].sess)
  /\ inflight' = [inflight EXCEPT !["read"].pc = "done"]
  /\ UNCHANGED <<env, alive, nextSid, now>>

\* req.logout, first turn: the user is deleted from req.session and the
\* session is saved (store.set).  A session generated for this request is
\* under an id no other request presents and is not followed.
LogoutSave ==
  /\ inflight["logout"].pc = "loaded"
  /\ sessions' =
       IF inflight["logout"].sess # NoSession
       THEN [sessions EXCEPT ![ConcSid] =
               [inflight["logout"].sess EXCEPT !.user = NoUser]]
       ELSE sessions
  /\ inflight' = [inflight EXCEPT !["logout"].pc = "saved"]
  /\ UNCHANGED <<env, alive, nextSid, now, resp>>

\* req.logout, second turn: session.regenerate destroys the session id.
LogoutRegenerate ==
  /\ inflight["logout"].pc = "saved"
  /\ sessions' =
       IF inflight["logout"].sess # NoSession
       THEN destroy(sessions, ConcSid) ELSE sessions
  /\ inflight' = [inflight EXCEPT !["logout"].pc = "regenerated"]
  /\ UNCHANGED <<env, alive, nextSid, now, resp>>

\* req.logout, last turn: the callback redirects to /.
LogoutRespond ==
  /\ inflight["logout"].pc = "regenerated"
  /\ resp' = LogoutResponse(ConcSid, FALSE)
  /\ inflight' = [inflight EXCEPT !["logout"].pc = "done"]
  /\ UNCHANGED <<env, alive, sessions, nextSid, now>>

\* passport.authenticate on the callback: the code is exchanged, the
\* profile fetched and verify called; nothing touches the store meanwhile.
LoginVerify ==
  /\ inflight["login"].pc = "loaded"
  /\ strategyRegistered
  /\ ~verify(inflight["login"].profile).threw
  /\ inflight' = [inflight EXCEPT !["login"].pc = "verified"]
  /\ UNCHANGED <<env, alive, sessions, nextSid, now, resp>>

\* req.logIn, first turn: session.regenerate destroys the session id the
\* request loaded.
LoginRegenerate ==
  /\ inflight["login"].pc = "verified"
  /\ sessions' =
       IF inflight["login"].sess # NoSession
       THEN destroy(sessions, ConcSid) ELSE sessions
  /\ inflight' = [inflight EXCEPT !["login"].pc = "regenerated"]
  /\ UNCHANGED <<env, alive, nextSid, now, resp>>

\* req.logIn, second turn: a fresh id is generated, the serialized user is
\* put in the new session and the session is saved.
LoginSave ==
  /\ inflight["login"].pc = "regenerated"
  /\ nextSid <= MaxSessions
  /\ sessions' =
       [sessions EXCEPT ![nextSid] =
          [user |-> serializeUser(verify(inflight["login"].profile).user),
           expires |-> now + MaxAge]]
  /\ nextSid' = nextSid + 1
  /\ inflight' = [inflight EXCEPT !["login"].pc = "saved",
                                  !["login"].sess = sessions'[nextSid]]
  /\ UNCHANGED <<env, alive, now, resp>>

\* req.logIn, last turn: res.redirect('/dashboard') with the new cookie.
LoginRespond ==
  /\ inflight["login"].pc = "saved"
  /\ resp' = [CallbackResponse(ConcSid, "none",
                [kind |-> "profile", profile |-> inflight["login"].profile],
                Response("/auth/google/callback", ConcSid, 302, "/dashboard",
                         NoUser, TRUE))
                EXCEPT !.setCookie = nextSid - 1,
                       !.cookieData =
                          sessionCookie(nextSid - 1, sessions[nextSid - 1])]
  /\ inflight' = [inflight EXCEPT !["login"].pc = "done"]
  /\ UNCHANGED <<env, alive, sessions, nextSid, now>>

NextConc ==
  \/ \E r \in Reqs : LoadSession(r)
  \/ GuardedRespond
  \/ LogoutSave
  \/ LogoutRegenerate
  \/ LogoutRespond
  \/ LoginVerify
  \/ LoginRegenerate
  \/ LoginSave
  \/ LoginRespond

SpecConc == InitConc /\ [][NextConc]_vars


(* ------------------------------ claims --------------------------------- *)

Protected == {"/dashboard", "/api/user"}

\* The store holds a session under cookie c.
Stored(c) == c \in SIDs /\ sessions[c] # NoSession

\* The last response is the guard's 401.
Is401 ==
  /\ resp.status = 401
  /\ resp.body = "Authentication required"
  /\ ~resp.ran

\* C1, as stated: a GET on a protected route with a session that is absent
\* or has no principal is answered 401 {"error":"Authentication required"}
\* and the downstream handler is not executed.
C1_Original ==
  (resp.route \in Protected /\ ~Stored(resp.cookie)) => Is401

\* C1, amended: such a GET is answered 401 with that body, unless it is a
\* GET /api/user that the /api/ rate limiter answered with 429 before the
\* guard ran; in both cases the downstream handler is not executed.
C1_Unauthenticated401 ==
  (resp.route \in Protected /\ ~Stored(resp.cookie)) =>
     \/ Is401
     \/ /\ resp.route = "/api/user"
        /\ resp.status = 429
        /\ ~resp.ran

\* C1 witness: the guard rejected a request that carried a session id.
C1_Witness ==
  /\ resp.route \in Protected
  /\ resp.cookie \in SIDs
  /\ ~Stored(resp.cookie)
  /\ Is401

\* The fields of user u that the route of the last response renders.
Rendered(route, u) ==
  IF route = "/api/user"
  THEN [id |-> u.id, email |-> u.email, name |-> u.name,
        provider |-> u.provider, avatarUrl |-> u.avatarUrl]
  ELSE [name |-> u.name, email |-> u.email, provider |-> u.provider,
        avatarUrl |-> u.avatarUrl]

\* While the session is live, a guard decision on it admits the request
\* with the stored principal.
C2_Authorized ==
  (resp.route \in Protected /\ resp.status # 429 /\ Valid(resp.cookie)) =>
     /\ resp.status = 200
     /\ resp.ran
     /\ resp.user = Rendered(resp.route, sessions[resp.cookie].user)

\* The principal a completed login attached to its session is the one the
\* verify callback produced.
C2_Attached ==
  (resp.route = "/auth/google/callback" /\ Stored(resp.setCookie)) =>
     sessions[resp.setCookie].user = verify(resp.reply.profile).user

\* A step keeps the principal of every session it keeps, and removes a
\* session only by a logout or a login callback carrying it, by expiry, or
\* by the end of the process.
C2_Step ==
  \A s \in SIDs :
    sessions[s] # NoSession =>
      /\ sessions'[s] # NoSession =>
           sessions'[s].user = sessions[s].user
      /\ sessions'[s] = NoSession =>
           \/ /\ resp'.cookie = s
              /\ resp'.route \in {"/auth/logout", "/auth/google/callback"}
           \/ ~(now < sessions[s].expires)
           \/ ~alive'

\* C2: after the callback attached principal P to a session, every later
\* authorize on that session returns exactly P, whatever requests other
\* than logout and a further login callback come in between, until the
\* session expires or is logged out.
C2_SamePrincipal ==
  [](C2_Attached /\ C2_Authorized) /\ [][C2_Step]_vars

\* C2 witness: a protected route admitted a session with its principal
\* after a later login had completed on another session.
C2_Witness ==
  /\ resp.route = "/api/user"
  /\ resp.status = 200
  /\ Stored(resp.cookie)
  /\ resp.cookie < nextSid - 1
  /\ resp.user = sessions[resp.cookie].user

\* C3, as stated: a callback whose state token is not the one beginLogin
\* issued never triggers the code exchange and never attaches a principal.
C3_Claim ==
  (resp.route = "/auth/google/callback" /\ resp.state = "forged") =>
     /\ ~resp.exchanged
     /\ resp.setCookie = NoCookie

\* C4, as stated: with the client id or the client secret unset, GET on
\* the login route answers 500 with the configuration-error body and does
\* not attempt the provider redirect.
C4_Claim ==
  (resp.route = "/auth/google" /\ ~(env.clientId /\ env.clientSecret)) =>
     /\ resp.status = 500
     /\ resp.body = "Google OAuth not configured"

\* C5, as stated: when the code exchange fails, the profile is malformed
\* or the profile has no email entry, the callback redirects to the failure
\* page, attaches no principal and the server keeps serving.
C5_Claim ==
  (/\ resp.route = "/auth/google/callback"
   /\ strategyRegistered
   /\ \/ resp.reply.kind \in {"exchange_failed", "malformed"}
      \/ /\ resp.reply.kind = "profile"
         /\ Len(resp.reply.profile.emails) = 0) =>
     /\ resp.status = 302
     /\ resp.body = "/login-failed"
     /\ resp.setCookie = NoCookie
     /\ alive

\* The principal the specification derives from a profile: the avatar is
\* the first photo entry if there is one, otherwise absent.
ExpectedPrincipal(p) ==
  IF Len(p.photos) > 0
  THEN [id |-> p.id, email |-> p.emails[1], name |-> p.displayName,
        provider |-> "google", avatarUrl |-> p.photos[1]]
  ELSE [id |-> p.id, email |-> p.emails[1], name |-> p.displayName,
        provider |-> "google"]

\* C6, as stated: for every profile with a subject id and at least one
\* email entry, with or without a photo entry, login succeeds with the
\* principal built from the profile, and GET /api/user on the session
\* returns exactly its fields.
C6_Claim ==
  /\ (/\ resp.route = "/auth/google/callback"
      /\ strategyRegistered
      /\ resp.reply.kind = "profile"
      /\ Len(resp.reply.profile.emails) > 0) =>
        /\ resp.status = 302
        /\ resp.body = "/dashboard"
        /\ Stored(resp.setCookie)
        /\ sessions[resp.setCookie].user =
             ExpectedPrincipal(resp.reply.profile)
  /\ (resp.route = "/api/user" /\ resp.status = 200) =>
        /\ Stored(resp.cookie)
        /\ resp.user = sessions[resp.cookie].user

C8_Original ==
  resp.route = "/auth/logout" => (resp.status = 302 /\ resp.body = "/")

\* C8, amended: GET /auth/logout is answered with the redirect to home
\* unless the session store reports an error to req.logout; then the
\* answer is 500 {error: "Logout failed"}.
C8_LogoutResponse ==
  resp.route = "/auth/logout" =>
     IF resp.reply = StoreError
     THEN resp.status = 500 /\ resp.body = "Logout failed"
     ELSE resp.status = 302 /\ resp.body = "/"

\* C8 witness: a logout during which the store reported an error.
C8_Witness ==
  /\ resp.route = "/auth/logout"
  /\ resp.reply = StoreError
  /\ resp.status = 500

\* A guard decision on a session id that is not in the store is the 401.
C9_Rejected ==
  (resp.route \in Protected /\ resp.status # 429 /\ ~Stored(resp.cookie)) =>
     Is401 /\ alive

\* A completed logout leaves no session under the id it was given.
C9_LoggedOut ==
  (resp.route = "/auth/logout" /\ resp.status = 302) => ~Stored(resp.cookie)

\* A session id that left the store never comes back.
C9_Step ==
  \A s \in SIDs :
    (s < nextSid /\ sessions[s] = NoSession) => sessions'[s] = NoSession

\* C9: authorize on an unknown or destroyed session id always yields the
\* guard's 401 and never throws; once a logout has completed, no later
\* request carrying the old session id passes the guard.
C9_DestroyedStaysOut ==
  [](C9_Rejected /\ C9_LoggedOut) /\ [][C9_Step]_vars

\* C9 witness: the guard rejected the id of a session that had been
\* logged in and is gone, while another login has completed since.
C9_Witness ==
  /\ resp.route \in Protected
  /\ Is401
  /\ resp.cookie \in SIDs
  /\ resp.cookie < nextSid
  /\ ~Stored(resp.cookie)
  /\ \E s \in SIDs : Stored(s)

\* The last response admitted a session on a protected route.
Admitted ==
  /\ resp.route \in Protected
  /\ resp.status = 200
  /\ Stored(resp.cookie)

\* The lifetime as the claim has it: a step leaves expiresAt of every
\* session it keeps where creation put it, and admits a session on a
\* protected route only while now < expiresAt.
C10_FixedStep ==
  \A s \in SIDs :
    /\ (sessions[s] # NoSession /\ sessions'[s] # NoSession) =>
         sessions'[s].expires = sessions[s].expires
    /\ (/\ now' = now
        /\ resp'.route \in Protected
        /\ resp'.cookie = s
        /\ resp'.status = 200) =>
         /\ sessions[s] # NoSession
         /\ now < sessions[s].expires

\* C10, as stated: a session's lifetime is fixed at 24 hours from its
\* creation: get returns the session only while now < expiresAt, and
\* expiresAt (createdAt + 24h) never moves, so no request arriving at
\* clock >= createdAt + 24h is authenticated through it.
C10_Original == [][C10_FixedStep]_vars

\* A step moves expiresAt only to now + 24h and only for a session that has
\* not expired, and admits a session on a protected route only while
\* now < expiresAt, touching it.
C10_Step ==
  \A s \in SIDs :
    /\ (sessions[s] # NoSession /\ sessions'[s] # NoSession) =>
         \/ sessions'[s].expires = sessions[s].expires
         \/ /\ now < sessions[s].expires
            /\ sessions'[s].expires = now + MaxAge
    /\ (/\ now' = now
        /\ resp'.route \in Protected
        /\ resp'.cookie = s
        /\ resp'.status = 200) =>
         /\ sessions[s] # NoSession
         /\ now < sessions[s].expires
         /\ sessions'[s] # NoSession
         /\ sessions'[s].expires = now + MaxAge

\* C10, amended: a session lives 24 hours from the last request that
\* carried it, not from its creation: get returns the session only while
\* now < expiresAt, and every request served through the session moves
\* expiresAt to now + 24h.
C10_SlidingExpiry == [][C10_Step]_vars

\* C10 witness: a session is admitted at a moment when a session created
\* after it, and never used, has already reached its expiry: the admitted
\* session is 24 hours old or older.
C10_Witness ==
  /\ Admitted
  /\ sessions[resp.cookie].expires = now + MaxAge
  /\ \E s \in SIDs :
       /\ s > resp.cookie
       /\ Stored(s)
       /\ sessions[s].expires <= now

\* The last step served a request (the clock did not move) on route r.
\* In a step that changes the state, resp' is the response of that request.
ServedOn(routes) == now' = now /\ resp'.route \in routes

Made == {r \in Reqs : inflight[r].pc # "absent"}

\* Every request that was made has been answered.
AllDone == \A r \in Made : inflight[r].pc = "done"

\* The store after request r alone, handled from arrival to response on
\* store.
Alone(store, r) ==
  CASE r = "read"   -> touch(Loaded(store, ConcSid), ConcSid)
    [] r = "logout" -> logOut(store, ConcSid)
    [] r = "login"  -> logIn(store, ConcSid, ConcFresh,
                             verify(inflight["login"].profile).user)

\* The orders in which the requests of P can be handled one after another.
Orders(P) ==
  {o \in [1..Cardinality(P) -> P] :
     \A i, j \in 1..Cardinality(P) : o[i] = o[j] => i = j}

RECURSIVE SerialStore(_, _, _)
\* The store after the requests o[i], o[i+1], ... handled one at a time.
SerialStore(store, o, i) ==
  IF i > Len(o) THEN store
  ELSE SerialStore(Alone(store, o[i]), o, i + 1)

\* C12: for every interleaving of a login callback, a logout and a guarded
\* read on one session id, once all are answered the store equals the
\* store some serial order of them produces, and a session a logout
\* destroyed holds no principal.
C12_Serializable ==
  AllDone =>
    /\ \E o \in Orders(Made) : sessions = SerialStore(ConcStore, o, 1)
    /\ "logout" \in Made => sessions[ConcSid] = NoSession
    /\ "login" \in Made =>
         /\ sessions[ConcFresh] # NoSession
         /\ sessions[ConcFresh].user =
              verify(inflight["login"].profile).user

\* C12 witness: login, logout and read overlapped: the read was answered
\* last, from the session it had loaded before the others destroyed it.
C12_Witness ==
  /\ Made = Reqs
  /\ AllDone
  /\ resp.route = "/dashboard"
  /\ resp.status = 200
  /\ sessions[ConcSid] = NoSession
  /\ resp.user.email = verify(ConcProfile).user.email
  /\ sessions[ConcFresh] # NoSession
  /\ sessions[ConcFresh].user.email # resp.user.email

\* C13: what is set as the session cookie is the session id alone; the
\* principal is held in the session record of the store under that id.
C13_CookieIsSessionId ==
  /\ resp.setCookie = NoCookie => resp.cookieData = NoUser
  /\ resp.setCookie # NoCookie =>
       /\ resp.cookieData = [sid |-> resp.setCookie]
       /\ Stored(resp.setCookie) =>
            sessions[resp.setCookie].user # NoUser

\* C13 witness: a login set a cookie for a session that holds a principal.
C13_Witness ==
  /\ resp.setCookie \in SIDs
  /\ Stored(resp.setCookie)
  /\ resp.cookieData = [sid |-> resp.setCookie]
  /\ sessions[resp.setCookie].user.email = "a@x.com"

\* C14: without provider credentials the server still runs, and GET
\* /health is answered with status healthy whatever the session and login
\* state.
C14_HealthWithoutCredentials ==
  ~(env.clientId /\ env.clientSecret) =>
     /\ alive
     /\ \A c \in Cookies : ENABLED GetHealth(c)
     /\ resp.route = "/health" =>
          (resp.status = 200 /\ resp.body = "healthy" /\ resp.ran)

\* C14 witness: /health answered with the client id set and the secret
\* unset, for a request that carried a session id.
C14_Witness ==
  /\ env.clientId
  /\ ~env.clientSecret
  /\ resp.route = "/health"
  /\ resp.status = 200
  /\ resp.cookie \in SIDs

\* A session enters the store only by a callback whose verification
\* succeeded, as the session that callback's response sets, holding the
\* principal verification produced.
C15_Step ==
  \A s \in SIDs :
    (sessions[s] = NoSession /\ sessions'[s] # NoSession) =>
       /\ resp'.route = "/auth/google/callback"
       /\ resp'.status = 302
       /\ resp'.body = "/dashboard"
       /\ resp'.setCookie = s
       /\ resp'.reply.kind = "profile"
       /\ ~verify(resp'.reply.profile).threw
       /\ sessions'[s].user = verify(resp'.reply.profile).user

\* Every principal in the store is one a verification produced.
C15_Produced ==
  \A s \in SIDs :
    sessions[s] # NoSession =>
      \E p \in Profiles :
        ~verify(p).threw /\ sessions[s].user = verify(p).user

\* C15: a session holds a principal only after a successful provider
\* callback verification on it; no other route populates a principal.
C15_OnlyCallbackPopulates == []C15_Produced /\ [][C15_Step]_vars

\* C15 witness: a session holds a principal while the last request, on a
\* public page with that session, changed nothing of it.
C15_Witness ==
  /\ resp.route \in {"/", "/test", "/health", "/login-failed", "/auth/google"}
  /\ Stored(resp.cookie)
  /\ sessions[resp.cookie].user.provider = "google"

\* The last response completed a login for a request that arrived with a
\* session already holding a principal.
Relogin ==
  /\ resp.route = "/auth/google/callback"
  /\ resp.setCookie # NoCookie
  /\ resp.user # NoUser

\* After a re-login the session the response sets holds exactly the new
\* principal and the session the request arrived with is gone.
C16_Replaced ==
  Relogin =>
    /\ Stored(resp.setCookie)
    /\ sessions[resp.setCookie].user = verify(resp.reply.profile).user
    /\ ~Stored(resp.cookie)

\* No step changes a field of a principal that stays in the store.
C16_Step ==
  \A s \in SIDs :
    (sessions[s] # NoSession /\ sessions'[s] # NoSession) =>
       sessions'[s].user = sessions[s].user

\* C16: on re-login the principal is replaced, never mutated: authorize
\* afterwards returns exactly the new principal, nothing of the old one,
\* and between the logins no operation changes a field of the old one.
C16_ReplacedNotMutated == []C16_Replaced /\ [][C16_Step]_vars

\* C16 witness: a session that held one principal was logged in again with
\* a different one.
C16_Witness ==
  /\ Relogin
  /\ Stored(resp.setCookie)
  /\ resp.user.id # sessions[resp.setCookie].user.id
  /\ resp.user.avatarUrl # sessions[resp.setCookie].user.avatarUrl

C17_Step ==
  (ServedOn(Protected) /\ resp'.status \in {200, 401}) =>
    \A s \in SIDs :
      /\ s # resp'.cookie => sessions'[s] = sessions[s]
      /\ sessions[s] = NoSession => sessions'[s] = NoSession
      /\ (s = resp'.cookie /\ sessions[s] # NoSession) =>
           IF now < sessions[s].expires
           THEN /\ resp'.status = 200
                /\ sessions'[s] =
                     [sessions[s] EXCEPT !.expires = now + MaxAge]
           ELSE /\ resp'.status = 401
                /\ sessions'[s] = NoSession

InternalFailure ==
  \/ /\ resp.route \in {"/auth/google", "/auth/google/callback"}
     /\ env.clientId
     /\ ~strategyRegistered
  \/ /\ resp.route = "/auth/google/callback"
     /\ strategyRegistered
     /\ \/ resp.reply.kind \in {"exchange_failed", "malformed"}
        \/ /\ resp.reply.kind = "profile"
           /\ verify(resp.reply.profile).threw

\* C18, as stated: every unhandled internal failure, also one raised
\* inside the asynchronous verify callback, ends in 500 {error: "Internal
\* server error"}, never in a hung request or a terminated process.
C18_Claim ==
  InternalFailure =>
    /\ resp.status = 500
    /\ resp.body = "Internal server error"
    /\ alive

\* C19: for the same session, the home page renders the logged-in view and
\* /test reports a user email exactly when a protected route would admit
\* the session, and then the user record is there and its email is read.
C19_PagesAgreeWithGuard ==
  [][ ServedOn({"/", "/test"}) =>
        /\ resp'.status = 200
        /\ (resp'.user # NoUser) <=> requireAuth(resp'.cookie)
        /\ resp'.user # NoUser =>
             /\ Valid(resp'.cookie)
             /\ resp'.user = [email |-> sessions[resp'.cookie].user.email]
     ]_vars

\* C19 witness: the home page rendered the logged-in view of a session.
C19_Witness ==
  /\ resp.route = "/"
  /\ resp.status = 200
  /\ resp.user # NoUser
  /\ Stored(resp.cookie)
  /\ resp.user.email = sessions[resp.cookie].user.email

====
